---- MODULE Spec2Model ----
(***************************************************************************)
(* Model of the aztfexport helper: the export executor                     *)
(* (ExportManager._export_resource_group), the per-subscription loop       *)
(* (ExportManager.export_subscription, ExportService.export_subscription)  *)
(* and the orchestration loop of main().                                   *)
(*                                                                         *)
(* SpecExport / FairSpecExport : one call of export_subscription, the      *)
(*                               executor stepping through its phases.     *)
(* Spec                        : main()'s loop over the subscriptions.     *)
(***************************************************************************)
EXTENDS Integers, Sequences, FiniteSets, TLC

\* ------------------------------------------------------------------------
\* Bounds of the model
\* ------------------------------------------------------------------------
\* longest resource-group list a listing returns
MaxRgs == 2
\* most .tf files kept per directory
MaxTf == 1
\* longest list of excluded resource types
MaxTypes == 2
\* most lines the subprocess writes
MaxLines == 3
\* longest list of exclusion patterns
MaxPatterns == 2
\* the longest string handed to resolve_pipeline_variable
MaxValueLen == 4

\* ------------------------------------------------------------------------
\* Values
\* ------------------------------------------------------------------------
\* Python's None, where the other values are strings
None == "None"

\* an optional value: <<>> while unset, <<v>> once set
Unset == <<>>
Some(v) == <<v>>

\* a name is a sequence of characters
rg_a == <<"r", "g">>
rg_dot == <<"r", ".">>
rg_us == <<"r", "_">>

\* the resource groups a subscription may hold, in the order `az group list` prints them
CliOrder == <<rg_a, rg_dot, rg_us>>

RECURSIVE SubSeqsFrom(_, _)
\* the subsequences of CliOrder[i..] of length at most n
SubSeqsFrom(i, n) ==
    IF i > Len(CliOrder) \/ n = 0 THEN {<<>>}
    ELSE SubSeqsFrom(i + 1, n)
         \cup {<<CliOrder[i]>> \o s : s \in SubSeqsFrom(i + 1, n - 1)}

\* the lists _get_resource_groups may return (empty also when the listing failed)
RgListings == SubSeqsFrom(1, MaxRgs)

\* the subscriptions of config['subscriptions'], in configured order; the last one
\* is configured by its id alone
Subscriptions ==
    << [id |-> "s1", name |-> <<"S", "1">>],
       [id |-> "s2", name |-> <<"S", ".", "2">>],
       [id |-> "s3"] >>

\* the characters of a subscription id
IdChars == [s1 |-> <<"s", "1">>, s2 |-> <<"s", "2">>, s3 |-> <<"s", "3">>]

\* main: subscription_name = sub.get('name', subscription_id)
name_of(sub) == IF "name" \in DOMAIN sub THEN sub.name ELSE IdChars[sub.id]

UpperToLower == [c \in {"R", "G", "S"} |-> CASE c = "R" -> "r" [] c = "G" -> "g" [] OTHER -> "s"]

\* str.lower() on one character
LowerChar(c) == IF c \in DOMAIN UpperToLower THEN UpperToLower[c] ELSE c

\* the characters of [a-zA-Z0-9_-] the model uses
SafeChars == {"r", "g", "s", "R", "G", "S", "1", "2", "_", "-"}

\* _sanitize_name: re.sub(r'[^a-zA-Z0-9_-]', '_', name).lower()
sanitize_name(name) ==
    [i \in 1..Len(name) |-> LowerChar(IF name[i] \in SafeChars THEN name[i] ELSE "_")]

\* ------------------------------------------------------------------------
\* State
\* ------------------------------------------------------------------------
VARIABLES
    \* configuration (fixed during a run)
    impl,               \* which export_subscription runs: "ExportManager" | "ExportService"
    create_rg_folders,  \* output.create_rg_folders
    additional_flags,   \* aztfexport.additional_flags: Unset (YAML null) or Some(list)
    \* export_subscription
    es_pc,              \* "start" | "loop" | "export" | "returned" | "raised"
    resource_groups,    \* the list _get_resource_groups returned
    rg_idx,             \* position of the for loop in resource_groups
    attempted,          \* the resource groups _export_resource_group was called for, in order
    sub_results,        \* export_subscription's `results` dict
    \* _export_resource_group
    ex_pc,              \* "idle" | "prepare" | "build" | "launch" | "read" | "wait" | "classify" | "returned" | "raised"
    output_path,        \* the directory handed to the tool
    result,             \* the `result` dict
    exit_code,          \* what process.wait returned: Unset or Some(code)
    read_raised,        \* an exception left the read loop and is pending in `finally`
    full_output,        \* what the transcript contains
    proc,               \* the subprocess: [state, stdout_open, terminates, code, wrote]
    fs,                 \* .tf files per directory under sub_dir
    \* main
    main_pc,            \* "idle" | "start" | "loop" | "push" | "telemetry" | "except"
                        \* | "done" | "exited" (sys.exit before the loop) | "fatal"
    export_enabled,     \* per configured subscription: its export_enabled key
    exclude_subscriptions, \* config['exclude_subscriptions']: a list or a {prod, non-prod} map
    env_push,           \* PUSH_TO_REPOS is 'true' in the environment
    cfg_push,           \* git.push_to_repos
    la_enabled,         \* LogAnalyticsSender.enabled
    sub_idx,            \* position of the for loop in subscriptions
    results,            \* main's `results` dict
    subscription_result,
    status,
    git_push_status,
    error_message,
    push_calls,         \* the calls of push_subscription_to_git
    la_records,         \* the records that reached send_data with the sender enabled
    la_answers,         \* what each call of send_subscription_backup_status answered
    sub_dirs,           \* the subscription directories that exist under base_dir
    results_file,       \* what export_results.json holds: Unset or Some(results)
    exit_status,        \* the exit code of the process: Unset or Some(code)
    summary,            \* the figures of the "Export Summary" log: Unset or Some(figures)
    \* configuration and state of the parts modelled on their own further down
    cleanup_after_push, \* output.cleanup_after_push
    \* building the export command
    exclude_resource_types,  \* aztfexport.exclude_resource_types
    custom_query,            \* aztfexport.query ("" and None are both <<>>)
    exclude_resource_groups, \* ExportService: exclude_resource_groups + global excludes
    resource_types,          \* aztfexport.resource_types
    exclude_resources,       \* aztfexport.exclude_resources
    cmd_rg,                  \* the resource group the command is built for
    cmd_pc,                  \* "idle" | "ready" | "built" | "raised"
    cmd,                     \* the command vector, once built
    \* the output read loop
    stream,                  \* the lines the subprocess writes, in order
    read_pos,                \* 0 while idle, else the position of the next line to read
    output_lines,            \* the buffered transcript
    seen_lines,              \* the lines seen so far
    echoed,                  \* what was written to the operator's standard output
    \* listing the resource groups of a subscription
    rgs_data,                \* the names `az group list` printed, in order
    exclude_patterns,        \* global_excludes.resource_groups + exclude_resource_groups
    rg_pos,                  \* 0 while idle, else the position of the next name
    included_rgs,            \* the list that is returned
    excluded_rgs,            \* the (name, matching pattern) pairs
    name_warnings,           \* how many "Skipping invalid resource group name" warnings
    \* resolving a pipeline variable
    pv_pc,                   \* "idle" | "call" | "returned"
    pv_value,                \* the argument of resolve_pipeline_variable
    environ,                 \* os.environ: per name, Unset or Some(value)
    resolved                 \* what resolve_pipeline_variable returned

exportVars == <<impl, create_rg_folders, additional_flags, es_pc, resource_groups,
                rg_idx, attempted, sub_results, ex_pc, output_path, result, exit_code,
                read_raised, full_output, proc, fs>>

mainVars == <<main_pc, export_enabled, exclude_subscriptions, env_push, cfg_push,
              la_enabled, sub_idx, results, subscription_result, status, git_push_status,
              error_message, push_calls, la_records, la_answers, sub_dirs,
              results_file, exit_status, summary>>

commandVars == <<exclude_resource_types, custom_query, exclude_resource_groups,
                 resource_types, exclude_resources, cmd_rg, cmd_pc, cmd>>

readVars == <<stream, read_pos, output_lines, seen_lines, echoed>>

listingVars == <<rgs_data, exclude_patterns, rg_pos, included_rgs, excluded_rgs,
                 name_warnings>>

resolveVars == <<pv_pc, pv_value, environ, resolved>>

otherVars == <<cleanup_after_push, commandVars, readVars, listingVars, resolveVars>>

vars == <<exportVars, mainVars, otherVars>>

\* ------------------------------------------------------------------------
\* _parse_aztfexport_output
\* ------------------------------------------------------------------------
\* What a transcript contains, as far as _parse_aztfexport_output reads it:
\* a permission keyword, the word error/failed, and the N of "exported N resources".
OutputClasses ==
    { [permission_kw |-> FALSE, error_kw |-> FALSE, exported |-> 0],
      [permission_kw |-> TRUE,  error_kw |-> FALSE, exported |-> 0],
      [permission_kw |-> FALSE, error_kw |-> TRUE,  exported |-> 0],
      [permission_kw |-> FALSE, error_kw |-> FALSE, exported |-> 2] }

\* an empty transcript
NoOutput == [permission_kw |-> FALSE, error_kw |-> FALSE, exported |-> 0]

\* the statistics parsed out of a transcript
parse_aztfexport_output(output) ==
    [ total_resources    |-> output.exported,
      exported_resources |-> output.exported,
      failed_resources   |-> 0,
      skipped_resources  |-> 0,
      error_type         |-> IF output.permission_kw THEN "permission"
                             ELSE IF output.error_kw THEN "other"
                             ELSE None,
      error_details      |-> IF output.error_kw THEN "error_lines" ELSE "[]" ]

\* ------------------------------------------------------------------------
\* _export_resource_group
\* ------------------------------------------------------------------------
\* `result` as initialised on entry
InitialResult ==
    [ success            |-> FALSE,
      total_resources    |-> 0,
      exported_resources |-> 0,
      failed_resources   |-> 0,
      skipped_resources  |-> 0,
      error_type         |-> None,
      error_details      |-> "[]" ]

\* result.update(parsed_stats)
result_update(r, stats) ==
    [r EXCEPT !.total_resources = stats.total_resources,
              !.exported_resources = stats.exported_resources,
              !.failed_resources = stats.failed_resources,
              !.skipped_resources = stats.skipped_resources,
              !.error_type = stats.error_type,
              !.error_details = stats.error_details]

\* except subprocess.TimeoutExpired
on_timeout(r) ==
    [r EXCEPT !.success = FALSE, !.error_type = "timeout", !.error_details = "timeout"]

\* except FileNotFoundError
on_file_not_found(r) ==
    [r EXCEPT !.success = FALSE, !.error_type = "tool_not_found",
              !.error_details = "not_found"]

\* except Exception
on_exception(r) ==
    [r EXCEPT !.success = FALSE, !.error_type = "exception", !.error_details = "str(e)"]

NoProcess ==
    [state |-> "none", stdout_open |-> FALSE, terminates |-> FALSE, code |-> Unset,
     wrote |-> FALSE]

\* the directories below one subscription directory: sub_dir itself and the rg folders
SubDir == <<>>
Dirs == {SubDir} \cup {<<sanitize_name(CliOrder[i])>> : i \in 1..Len(CliOrder)}

IsPrefix(p, q) == Len(p) <= Len(q) /\ \A i \in 1..Len(p) : p[i] = q[i]

RECURSIVE SumOver(_, _)
SumOver(f, S) ==
    IF S = {} THEN 0
    ELSE LET x == CHOOSE y \in S : TRUE IN f[x] + SumOver(f, S \ {x})

\* len(list(output_path.rglob('*.tf')))
tf_files(files, path) == SumOver(files, {d \in Dirs : IsPrefix(path, d)})

\* output_path.resolve(); output_path.parent.mkdir(parents=True, exist_ok=True):
\* outside the try block, so an OSError leaves the function
export_resource_group_prepare ==
    /\ ex_pc = "prepare"
    /\ \E ok \in BOOLEAN : ex_pc' = IF ok THEN "build" ELSE "raised"
    /\ UNCHANGED <<otherVars, impl, create_rg_folders, additional_flags, es_pc, resource_groups,
                   rg_idx, attempted, sub_results, output_path, result, exit_code,
                   read_raised, full_output, proc, fs, mainVars>>

\* the command vector is built outside the try block: cmd.extend(additional_flags)
\* raises TypeError when the YAML value is null
export_resource_group_build ==
    /\ ex_pc = "build"
    /\ ex_pc' = IF additional_flags = Unset THEN "raised" ELSE "launch"
    /\ UNCHANGED <<otherVars, impl, create_rg_folders, additional_flags, es_pc, resource_groups,
                   rg_idx, attempted, sub_results, output_path, result, exit_code,
                   read_raised, full_output, proc, fs, mainVars>>

\* subprocess.Popen inside the try block
export_resource_group_launch ==
    /\ ex_pc = "launch"
    /\ \E how \in {"started", "FileNotFoundError", "OSError"} :
          CASE how = "started" ->
                 /\ \E t \in BOOLEAN :
                       proc' = [state |-> "running", stdout_open |-> TRUE,
                                terminates |-> t, code |-> Unset, wrote |-> FALSE]
                 /\ ex_pc' = "read"
                 /\ UNCHANGED result
            [] how = "FileNotFoundError" ->
                 /\ result' = on_file_not_found(result)
                 /\ ex_pc' = "returned"
                 /\ UNCHANGED proc
            [] OTHER ->
                 /\ result' = on_exception(result)
                 /\ ex_pc' = "returned"
                 /\ UNCHANGED proc
    /\ UNCHANGED <<otherVars, impl, create_rg_folders, additional_flags, es_pc, resource_groups,
                   rg_idx, attempted, sub_results, output_path, exit_code,
                   read_raised, full_output, fs, mainVars>>

\* the tool closes its output stream without exiting
proc_close_stdout ==
    /\ proc.state = "running"
    /\ proc.stdout_open
    /\ proc' = [proc EXCEPT !.stdout_open = FALSE]
    /\ UNCHANGED <<otherVars, impl, create_rg_folders, additional_flags, es_pc, resource_groups,
                   rg_idx, attempted, sub_results, ex_pc, output_path, result, exit_code,
                   read_raised, full_output, fs, mainVars>>

\* the tool exits, with or without having written a .tf file into --output-dir
proc_exit ==
    /\ proc.state = "running"
    /\ proc.terminates
    /\ \E code \in {0, 1}, wrote \in BOOLEAN :
          /\ wrote => fs[output_path] < MaxTf
          /\ proc' = [proc EXCEPT !.state = "exited", !.stdout_open = FALSE,
                                    !.code = Some(code), !.wrote = wrote]
          /\ fs' = IF wrote THEN [fs EXCEPT ![output_path] = @ + 1] ELSE fs
    /\ UNCHANGED <<otherVars, impl, create_rg_folders, additional_flags, es_pc, resource_groups,
                   rg_idx, attempted, sub_results, ex_pc, output_path, result, exit_code,
                   read_raised, full_output, mainVars>>

\* for line in iter(process.stdout.readline, ''): the loop ends at end of stream
export_resource_group_read_eof ==
    /\ ex_pc = "read"
    /\ ~proc.stdout_open
    /\ \E o \in OutputClasses : full_output' = o
    /\ ex_pc' = "wait"
    /\ UNCHANGED <<otherVars, impl, create_rg_folders, additional_flags, es_pc, resource_groups,
                   rg_idx, attempted, sub_results, output_path, result, exit_code,
                   read_raised, proc, fs, mainVars>>

\* an exception in the loop body (a line that does not decode, a write to a closed
\* sys.stdout): `finally` closes the stream and waits, the exception stays pending
export_resource_group_read_raise ==
    /\ ex_pc = "read"
    /\ read_raised' = TRUE
    /\ ex_pc' = "wait"
    /\ UNCHANGED <<otherVars, impl, create_rg_folders, additional_flags, es_pc, resource_groups,
                   rg_idx, attempted, sub_results, output_path, result, exit_code,
                   full_output, proc, fs, mainVars>>

\* exit_code = process.wait(timeout=3600) returns; a pending exception then reaches
\* `except Exception`
export_resource_group_wait ==
    /\ ex_pc = "wait"
    /\ proc.state = "exited"
    /\ exit_code' = proc.code
    /\ IF read_raised
          THEN /\ result' = on_exception(result)
               /\ ex_pc' = "returned"
          ELSE /\ ex_pc' = "classify"
               /\ UNCHANGED result
    /\ UNCHANGED <<otherVars, impl, create_rg_folders, additional_flags, es_pc, resource_groups,
                   rg_idx, attempted, sub_results, output_path, read_raised,
                   full_output, proc, fs, mainVars>>

\* process.wait raises TimeoutExpired: the handler kills the process
export_resource_group_timeout ==
    /\ ex_pc = "wait"
    /\ proc.state = "running"
    /\ proc' = [proc EXCEPT !.state = "killed", !.stdout_open = FALSE]
    /\ result' = on_timeout(result)
    /\ ex_pc' = "returned"
    /\ UNCHANGED <<otherVars, impl, create_rg_folders, additional_flags, es_pc, resource_groups,
                   rg_idx, attempted, sub_results, output_path, exit_code, read_raised,
                   full_output, fs, mainVars>>

\* classify with the artifact check left out: exit code 0 alone counts as success
classify_exit_code_only(r, code, output, files, path) ==
    LET parsed == result_update(r, parse_aztfexport_output(output))
        n == tf_files(files, path)
    IN  IF code = Some(0)
           THEN IF parsed.exported_resources = 0
                   THEN [parsed EXCEPT !.success = TRUE,
                                       !.exported_resources = n,
                                       !.total_resources = n]
                   ELSE [parsed EXCEPT !.success = TRUE]
           ELSE [parsed EXCEPT !.success = FALSE]

\* the outcome once the exit code is known: parsed statistics, then exit code and
\* the .tf files under output_path decide success
classify(r, code, output, files, path) ==
    LET parsed == result_update(r, parse_aztfexport_output(output))
        n == tf_files(files, path)
    IN  IF code = Some(0) /\ n > 0
           THEN IF parsed.exported_resources = 0
                   THEN [parsed EXCEPT !.success = TRUE,
                                       !.exported_resources = n,
                                       !.total_resources = n]
                   ELSE [parsed EXCEPT !.success = TRUE]
           ELSE [parsed EXCEPT !.success = FALSE]

export_resource_group_classify ==
    /\ ex_pc = "classify"
    /\ result' = classify(result, exit_code, full_output, fs, output_path)
    /\ ex_pc' = "returned"
    /\ UNCHANGED <<otherVars, impl, create_rg_folders, additional_flags, es_pc, resource_groups,
                   rg_idx, attempted, sub_results, output_path, exit_code, read_raised,
                   full_output, proc, fs, mainVars>>

\* ------------------------------------------------------------------------
\* ExportManager.export_subscription
\* ------------------------------------------------------------------------
\* `results` with total_rgs counting every group the CLI listed, as the listing's
\* own summary log does, not only the groups that are exported
InitialSubResults_counting_listed(subscription, rgs) ==
    [ subscription_id    |-> subscription.id,
      subscription_name  |-> subscription.name,
      resource_groups    |-> <<>>,
      total_rgs          |-> Len(CliOrder),
      successful_rgs     |-> 0,
      failed_rgs         |-> 0,
      total_resources    |-> 0,
      exported_resources |-> 0,
      failed_resources   |-> 0,
      skipped_resources  |-> 0 ]

\* `results` as initialised once the resource groups are listed
InitialSubResults(subscription, rgs) ==
    [ subscription_id    |-> subscription.id,
      subscription_name  |-> subscription.name,
      resource_groups    |-> <<>>,
      total_rgs          |-> Len(rgs),
      successful_rgs     |-> 0,
      failed_rgs         |-> 0,
      total_resources    |-> 0,
      exported_resources |-> 0,
      failed_resources   |-> 0,
      skipped_resources  |-> 0 ]

\* rg_dir = sub_dir / _sanitize_name(rg) if create_rg_folders else sub_dir
rg_dir(rg, rg_folders) == IF rg_folders THEN <<sanitize_name(rg)>> ELSE SubDir

\* a dict assignment that forgets the entries of the other keys
dict_only(d, key, value) == <<[key |-> key, value |-> value]>>

\* results['resource_groups'][rg] = {...}: a dict assignment, the last write wins
dict_set(d, key, value) ==
    IF \E i \in 1..Len(d) : d[i].key = key
       THEN [i \in 1..Len(d) |-> IF d[i].key = key THEN [key |-> key, value |-> value]
                                 ELSE d[i]]
       ELSE Append(d, [key |-> key, value |-> value])

\* fold with the failure branch of `if success: ... else: ...` left out
fold_without_failed(res, rg, dir, rg_result) ==
    [res EXCEPT
        !.total_resources = @ + rg_result.total_resources,
        !.exported_resources = @ + rg_result.exported_resources,
        !.failed_resources = @ + rg_result.failed_resources,
        !.skipped_resources = @ + rg_result.skipped_resources,
        !.resource_groups = dict_set(@, rg,
            [path |-> dir, status |-> IF rg_result.success THEN "success" ELSE "failed"]),
        !.successful_rgs = IF rg_result.success THEN @ + 1 ELSE @]

\* fold with the resource counters assigned from the outcome, not added to
fold_last_outcome(res, rg, dir, rg_result) ==
    [res EXCEPT
        !.total_resources = rg_result.total_resources,
        !.exported_resources = rg_result.exported_resources,
        !.failed_resources = rg_result.failed_resources,
        !.skipped_resources = rg_result.skipped_resources,
        !.resource_groups = dict_set(@, rg,
            [ path               |-> dir,
              status             |-> IF rg_result.success THEN "success" ELSE "failed",
              total_resources    |-> rg_result.total_resources,
              exported_resources |-> rg_result.exported_resources,
              failed_resources   |-> rg_result.failed_resources,
              skipped_resources  |-> rg_result.skipped_resources,
              error_type         |-> rg_result.error_type,
              error_details      |-> rg_result.error_details ]),
        !.successful_rgs = IF rg_result.success THEN @ + 1 ELSE @,
        !.failed_rgs = IF rg_result.success THEN @ ELSE @ + 1]

\* the body of the for loop after _export_resource_group returned rg_result
fold(res, rg, dir, rg_result) ==
    LET success == rg_result.success
        record == [ path               |-> dir,
                    status             |-> IF success THEN "success" ELSE "failed",
                    total_resources    |-> rg_result.total_resources,
                    exported_resources |-> rg_result.exported_resources,
                    failed_resources   |-> rg_result.failed_resources,
                    skipped_resources  |-> rg_result.skipped_resources,
                    error_type         |-> rg_result.error_type,
                    error_details      |-> rg_result.error_details ]
    IN  [res EXCEPT
            !.total_resources = @ + rg_result.total_resources,
            !.exported_resources = @ + rg_result.exported_resources,
            !.failed_resources = @ + rg_result.failed_resources,
            !.skipped_resources = @ + rg_result.skipped_resources,
            !.resource_groups = dict_set(@, rg, record),
            !.successful_rgs = IF success THEN @ + 1 ELSE @,
            !.failed_rgs = IF success THEN @ ELSE @ + 1]

\* sub_dir.mkdir, _get_resource_groups, results = {...}, and the early return
export_subscription_start ==
    /\ impl = "ExportManager"
    /\ es_pc = "start"
    /\ \E rgs \in RgListings :
          /\ resource_groups' = rgs
          /\ sub_results' = InitialSubResults(Subscriptions[1], rgs)
          /\ es_pc' = IF rgs = <<>> THEN "returned" ELSE "loop"
    /\ rg_idx' = 1
    /\ UNCHANGED <<otherVars, impl, create_rg_folders, additional_flags, attempted, ex_pc,
                   output_path, result, exit_code, read_raised, full_output, proc, fs,
                   mainVars>>

\* for rg in resource_groups: rg_result = self._export_resource_group(..., rg, rg_dir)
export_subscription_call ==
    /\ impl = "ExportManager"
    /\ es_pc = "loop"
    /\ rg_idx <= Len(resource_groups)
    /\ attempted' = Append(attempted, resource_groups[rg_idx])
    /\ output_path' = rg_dir(resource_groups[rg_idx], create_rg_folders)
    /\ result' = InitialResult
    /\ ex_pc' = "prepare"
    /\ es_pc' = "export"
    /\ UNCHANGED <<otherVars, impl, create_rg_folders, additional_flags, resource_groups, rg_idx,
                   sub_results, exit_code, read_raised, full_output, proc, fs, mainVars>>

\* _export_resource_group returned: fold rg_result in, go on with the next resource
\* group, return results after the last one
export_subscription_fold ==
    /\ es_pc = "export"
    /\ ex_pc = "returned"
    /\ sub_results' = fold(sub_results, resource_groups[rg_idx], output_path, result)
    /\ rg_idx' = rg_idx + 1
    /\ es_pc' = IF rg_idx = Len(resource_groups) THEN "returned" ELSE "loop"
    /\ ex_pc' = "idle"
    /\ exit_code' = Unset
    /\ read_raised' = FALSE
    /\ proc' = NoProcess
    /\ result' = InitialResult
    /\ full_output' = NoOutput
    /\ UNCHANGED <<otherVars, impl, create_rg_folders, additional_flags, resource_groups, attempted,
                   output_path, fs, mainVars>>

\* an exception left _export_resource_group: the loop has no handler, it leaves
\* export_subscription too
export_subscription_propagate ==
    /\ es_pc = "export"
    /\ ex_pc = "raised"
    /\ es_pc' = "raised"
    /\ UNCHANGED <<otherVars, impl, create_rg_folders, additional_flags, resource_groups, rg_idx,
                   attempted, sub_results, ex_pc, output_path, result, exit_code,
                   read_raised, full_output, proc, fs, mainVars>>

\* ------------------------------------------------------------------------
\* ExportService.export_subscription (core/export.py)
\* ------------------------------------------------------------------------
\* `results` as initialised once the resource groups are listed
InitialServiceResults(subscription, rgs) ==
    [ subscription_id   |-> subscription.id,
      subscription_name |-> subscription.name,
      total_rgs      |-> Len(rgs),
      successful_rgs |-> 0,
      failed_rgs     |-> 0,
      error          |-> None ]

\* the counters after the one subscription-wide tool run: exc is the exception raised
\* in the try block ("none" when the run reached the exit-code test), n the length of
\* resource_groups, ntf the number of .tf files found under the subscription directory
service_outcome(res, n, exc, code, ntf) ==
    CASE exc = "TimeoutExpired" ->
           [res EXCEPT !.error = "Export timeout exceeded 1 hour", !.failed_rgs = n]
      [] exc = "FileNotFoundError" ->
           [res EXCEPT !.error = "aztfexport not found", !.failed_rgs = n]
      [] exc = "Exception" ->
           [res EXCEPT !.error = "str(e)", !.failed_rgs = n]
      [] OTHER ->
           IF code = 0
              THEN IF ntf > 0
                      THEN [res EXCEPT !.successful_rgs = n, !.failed_rgs = 0]
                      ELSE [res EXCEPT !.successful_rgs = 0, !.failed_rgs = n]
              ELSE [res EXCEPT !.successful_rgs = 0, !.failed_rgs = n,
                                   !.error = "Export failed with exit code"]

\* sub_dir.mkdir, get_resource_groups, results = {...}, and the early return
service_export_subscription_start ==
    /\ impl = "ExportService"
    /\ es_pc = "start"
    /\ \E rgs \in RgListings :
          /\ resource_groups' = rgs
          /\ sub_results' = InitialServiceResults(Subscriptions[1], rgs)
          /\ es_pc' = IF rgs = <<>> THEN "returned" ELSE "export"
    /\ UNCHANGED <<otherVars, impl, create_rg_folders, additional_flags, rg_idx, attempted, ex_pc,
                   output_path, result, exit_code, read_raised, full_output, proc, fs,
                   mainVars>>

\* the rest of the method: the output directory is prepared outside the try block,
\* the command is built, run and judged inside it
service_export_subscription_run ==
    /\ impl = "ExportService"
    /\ es_pc = "export"
    /\ \E prepared \in BOOLEAN,
          exc \in {"none", "TimeoutExpired", "FileNotFoundError", "Exception"},
          code \in {0, 1}, wrote \in BOOLEAN :
          /\ additional_flags = Unset => exc = "Exception"
          /\ wrote => exc = "none" /\ fs[SubDir] < MaxTf
          /\ IF ~prepared
                THEN /\ es_pc' = "raised"
                     /\ UNCHANGED <<sub_results, fs>>
                ELSE /\ fs' = IF wrote THEN [fs EXCEPT ![SubDir] = @ + 1] ELSE fs
                     /\ sub_results' = service_outcome(sub_results, Len(resource_groups),
                                                       exc, code, tf_files(fs', SubDir))
                     /\ es_pc' = "returned"
    /\ UNCHANGED <<otherVars, impl, create_rg_folders, additional_flags, resource_groups, rg_idx,
                   attempted, ex_pc, output_path, result, exit_code, read_raised,
                   full_output, proc, mainVars>>

\* ------------------------------------------------------------------------
\* Collaborators of main: the Git manager and the Log Analytics sender
\* ------------------------------------------------------------------------
\* the public methods class GitManager defines
GitManagerMethods ==
    {"initialize_repo", "commit_and_push", "push_subscription_repo", "push_all_repos"}

\* GitManager.__init__(base_dir): self.base_dir = Path(base_dir) accepts a str or a
\* path and raises TypeError for anything else
git_manager_init(base_dir_type) ==
    IF base_dir_type \in {"str", "Path"} THEN "ok" ELSE "TypeError"

\* ExportManager.push_subscription_to_git: GitManager(self.config).push_to_repo(...).
\* collaborator is what commit-and-push would answer ("True" | "False")
push_subscription_to_git(collaborator) ==
    IF git_manager_init("dict") # "ok" THEN "TypeError"
    ELSE IF "push_to_repo" \notin GitManagerMethods THEN "AttributeError"
    ELSE collaborator

\* ExportManager.cleanup_export_directory: the subscription directories left under
\* base_dir once the one of this subscription has been removed; a subscription
\* without a name removes nothing
cleanup_export_directory(dirs, subscription) ==
    IF subscription.name = <<>> THEN dirs
    ELSE dirs \ {sanitize_name(subscription.name)}

\* LogAnalyticsSender.send_subscription_backup_status: the record it builds
backup_status_record(id, name, st, total, successful, failed, git_status, message) ==
    [ SubscriptionId           |-> id,
      SubscriptionName         |-> name,
      Status                   |-> st,
      TotalResourceGroups      |-> total,
      SuccessfulResourceGroups |-> successful,
      FailedResourceGroups     |-> failed,
      GitPushStatus            |-> git_status,
      ErrorMessage             |-> message ]

\* LogAnalyticsSender.send_data([record]): nothing is posted while the sender is
\* not enabled; otherwise the record is signed and posted
send_data(posted, record, enabled) == IF enabled THEN Append(posted, record) ELSE posted

\* the parameters of LogAnalyticsSender.send_subscription_backup_status
BackupStatusParameters ==
    {"subscription_id", "subscription_name", "status", "start_time", "end_time",
     "total_resource_groups", "successful_resource_groups", "failed_resource_groups",
     "git_push_status", "error_message", "total_resources", "exported_resources",
     "failed_resources", "skipped_resources"}

\* the keyword arguments main passes to send_subscription_backup_status, the same
\* in the try block and in the outer handler
MainKeywords ==
    {"subscription_id", "subscription_name", "environment", "status", "start_time",
     "end_time", "total_resource_groups", "successful_resource_groups",
     "failed_resource_groups", "git_push_status", "error_message"}

\* a call of send_subscription_backup_status with these keywords: a keyword that is
\* not a parameter raises TypeError before the body runs; otherwise the record goes
\* to send_data, which answers True when the post succeeded and False otherwise
send_subscription_backup_status(posted, keywords, record, enabled, post_ok) ==
    IF ~(keywords \subseteq BackupStatusParameters)
       THEN [posted |-> posted, answer |-> "raise"]
       ELSE [posted |-> send_data(posted, record, enabled),
             answer |-> IF enabled /\ post_ok THEN "True" ELSE "False"]

\* ------------------------------------------------------------------------
\* main
\* ------------------------------------------------------------------------
\* exclude_subscriptions written as a list
exclude_list(ids) == [form |-> "list", items |-> ids, prod |-> <<>>, non_prod |-> <<>>]

\* exclude_subscriptions written as a {prod: [...], non-prod: [...]} map
exclude_map(prod, non_prod) ==
    [form |-> "dict", items |-> <<>>, prod |-> prod, non_prod |-> non_prod]

\* exclude_subscriptions written with no value: config.get returns None
exclude_null == [form |-> "null", items |-> <<>>, prod |-> <<>>, non_prod |-> <<>>]

Elements(seq) == {seq[i] : i \in 1..Len(seq)}

\* the ids the configuration lists for exclusion, in either form
listed_for_exclusion(ex) == Elements(ex.items) \cup Elements(ex.prod) \cup Elements(ex.non_prod)

\* main: subscription_id in exclude_subscriptions. Python's `in` tests the elements
\* of a list and the keys of a dict
is_in_exclude_list(id, ex) ==
    IF ex.form = "list" THEN id \in Elements(ex.items) ELSE id \in {"prod", "non-prod"}

\* export_all_subscriptions: a {prod, non-prod} map is flattened into one list,
\* a list is used as it is
flatten_exclude(ex) == IF ex.form = "dict" THEN ex.prod \o ex.non_prod ELSE ex.items

\* export_all_subscriptions: is_excluded = subscription_id in exclude_subscriptions
\*                                        or subscription_name in exclude_subscriptions
\* (the configured lists hold ids, and no name is an id)
is_excluded(subscription, ex) == subscription.id \in Elements(flatten_exclude(ex))

\* push_to_repos read from the environment alone
push_to_repos_env_only == env_push

\* push_to_repos = (os.getenv('PUSH_TO_REPOS', 'false').lower() == 'true')
\*                 or config.get('git', {}).get('push_to_repos', False)
push_to_repos == env_push \/ cfg_push

\* dict.get(key, default) on a result record
get(record, key, default) == IF key \in DOMAIN record THEN record[key] ELSE default

\* before a subscription has a result
NoResult == [error |-> None]

\* the status main reports for a subscription result
determine_status(r) ==
    IF get(r, "successful_rgs", 0) > 0 THEN "success"
    ELSE IF get(r, "error", None) # None THEN "failed"
    ELSE IF get(r, "failed_rgs", 0) > 0 THEN "failed" ELSE "success"

\* the outcomes of _export_resource_group that main tells apart: a success and a failure
ReturnedOk == classify(InitialResult, Some(0), NoOutput, [d \in Dirs |-> 1], SubDir)
ReturnedFailed == classify(InitialResult, Some(1), NoOutput, [d \in Dirs |-> 0], SubDir)

RECURSIVE fold_from(_, _, _, _, _)
\* the for loop of export_subscription from position i on, outs[i] the outcome of rgs[i]
fold_from(res, rgs, outs, rg_folders, i) ==
    IF i > Len(rgs) THEN res
    ELSE fold_from(fold(res, rgs[i], rg_dir(rgs[i], rg_folders), outs[i]),
                   rgs, outs, rg_folders, i + 1)

\* what ExportManager.export_subscription returns when every call returned
export_subscription(subscription, rgs, outs, rg_folders) ==
    fold_from(InitialSubResults(subscription, rgs), rgs, outs, rg_folders, 1)

\* the listings main's subscriptions get: the first n resource groups, n <= MaxRgs
MainListings == {SubSeq(CliOrder, 1, n) : n \in 0..MaxRgs}

\* what main does before the loop. ExportManager(config_path) opens and parses the
\* configuration: an exception there leaves main and reaches the __main__ guard.
\* A missing Azure CLI, an account that is not logged in and a failed install of
\* aztfexport end in sys.exit(1).
StartOutcomes == {"ready", "config_error", "no_az_cli", "not_logged_in", "install_failed"}

main_start ==
    /\ main_pc = "start"
    /\ \E outcome \in StartOutcomes :
          CASE outcome = "ready" ->
                  /\ main_pc' = "loop"
                  /\ UNCHANGED exit_status
            [] outcome = "config_error" ->
                  /\ main_pc' = "fatal"
                  /\ exit_status' = Some(1)
            [] OTHER ->
                  /\ main_pc' = "exited"
                  /\ exit_status' = Some(1)
    /\ UNCHANGED <<summary, otherVars, exportVars, export_enabled, exclude_subscriptions, env_push,
                   cfg_push, la_enabled, sub_idx, results, subscription_result, status,
                   git_push_status, error_message, push_calls, la_records, la_answers,
                   sub_dirs, results_file>>

\* is_in_exclude_list = subscription_id in exclude_subscriptions, outside the try
\* block: with exclude_subscriptions None the test raises TypeError, which leaves
\* main and reaches the __main__ guard
main_fatal ==
    /\ main_pc = "loop"
    /\ sub_idx <= Len(Subscriptions)
    /\ exclude_subscriptions = exclude_null
    /\ main_pc' = "fatal"
    /\ exit_status' = Some(1)
    /\ UNCHANGED <<summary, otherVars, exportVars, export_enabled, exclude_subscriptions, env_push,
                   cfg_push, la_enabled, sub_idx, results, subscription_result, status,
                   git_push_status, error_message, push_calls, la_records, la_answers,
                   sub_dirs, results_file>>

\* for sub in subscriptions: a subscription that is disabled or excluded is skipped
main_skip ==
    /\ main_pc = "loop"
    /\ sub_idx <= Len(Subscriptions)
    /\ exclude_subscriptions # exclude_null
    /\ \/ ~export_enabled[sub_idx]
       \/ is_in_exclude_list(Subscriptions[sub_idx].id, exclude_subscriptions)
    /\ sub_idx' = sub_idx + 1
    /\ UNCHANGED <<summary, otherVars, exportVars, main_pc, export_enabled, exclude_subscriptions, env_push,
                   cfg_push, la_enabled, results, subscription_result, status,
                   git_push_status, error_message, push_calls, la_records, la_answers,
                   sub_dirs, results_file, exit_status>>

\* subscription_result = export_manager.export_subscription(sub, create_rg_folders);
\* results[subscription_id] = subscription_result; status is determined.
\* An exception leaving export_subscription reaches the outer handler.
main_export ==
    /\ main_pc = "loop"
    /\ sub_idx <= Len(Subscriptions)
    /\ exclude_subscriptions # exclude_null
    /\ export_enabled[sub_idx]
    /\ ~is_in_exclude_list(Subscriptions[sub_idx].id, exclude_subscriptions)
    /\ LET sub == Subscriptions[sub_idx] IN
       \E raised \in BOOLEAN, rgs \in MainListings :
       \E outs \in [1..Len(rgs) -> {ReturnedOk, ReturnedFailed}] :
          \* export_subscription reads subscription['name']: KeyError without the key
          /\ "name" \notin DOMAIN sub => raised
          /\ IF raised
               THEN /\ rgs = <<>>   \* nothing of the listing survives the exception
                    /\ error_message' = "str(e)"
                    /\ main_pc' = "except"
                    /\ UNCHANGED <<results, subscription_result, status, sub_dirs>>
               ELSE LET r == export_subscription(sub, rgs, outs, create_rg_folders) IN
                    /\ subscription_result' = r
                    /\ results' = dict_set(results, sub.id, r)
                    /\ status' = determine_status(r)
                    /\ error_message' = IF get(r, "successful_rgs", 0) = 0
                                           /\ get(r, "error", None) # None
                                           THEN get(r, "error", None) ELSE None
                    /\ sub_dirs' = sub_dirs \cup {sanitize_name(sub.name)}
                    /\ main_pc' = "push"
    /\ git_push_status' = "skipped"
    /\ UNCHANGED <<summary, otherVars, exportVars, export_enabled, exclude_subscriptions, env_push, cfg_push,
                   la_enabled, sub_idx, push_calls, la_records, la_answers,
                   results_file, exit_status>>

\* the push gate: if push_to_repos and successful_rgs > 0, and sub_dir exists,
\* push_subscription_to_git is called; its exception is caught in place
main_push ==
    /\ main_pc = "push"
    /\ LET sub == Subscriptions[sub_idx] IN
       IF push_to_repos /\ get(subscription_result, "successful_rgs", 0) > 0
          THEN IF sanitize_name(name_of(sub)) \in sub_dirs
                  THEN \E collaborator \in {"True", "False"} :
                          LET answer == push_subscription_to_git(collaborator) IN
                          /\ push_calls' = Append(push_calls,
                                 [id |-> sub.id, collaborator |-> collaborator,
                                  answer |-> answer])
                          /\ git_push_status' = IF answer = "True" THEN "success"
                                                ELSE "failed"
                          /\ error_message' =
                                 IF answer \in {"True", "False"} THEN error_message
                                 ELSE IF error_message = None THEN "str(e)"
                                 ELSE "error; Git push error"
                  ELSE /\ git_push_status' = "failed"
                       /\ UNCHANGED <<push_calls, error_message>>
          ELSE UNCHANGED <<push_calls, git_push_status, error_message>>
    /\ main_pc' = "telemetry"
    /\ UNCHANGED <<summary, otherVars, exportVars, export_enabled, exclude_subscriptions, env_push, cfg_push,
                   la_enabled, sub_idx, results, subscription_result, status, la_records,
                   la_answers, sub_dirs, results_file, exit_status>>

\* main_telemetry without the try/except around the call: an exception of the
\* sender reaches the outer handler
main_telemetry_unguarded ==
    /\ main_pc = "telemetry"
    /\ LET sub == Subscriptions[sub_idx] IN
       \E post_ok \in BOOLEAN :
          LET call == send_subscription_backup_status(la_records, MainKeywords,
                          backup_status_record(sub.id, name_of(sub), status,
                              get(subscription_result, "total_rgs", 0),
                              get(subscription_result, "successful_rgs", 0),
                              get(subscription_result, "failed_rgs", 0),
                              git_push_status, error_message),
                          la_enabled, post_ok)
          IN
          /\ la_records' = call.posted
          /\ la_answers' = Append(la_answers, call.answer)
          /\ IF call.answer = "raise"
                THEN /\ error_message' = "str(e)"
                     /\ main_pc' = "except"
                     /\ UNCHANGED sub_idx
                ELSE /\ sub_idx' = sub_idx + 1
                     /\ main_pc' = "loop"
                     /\ UNCHANGED error_message
    /\ UNCHANGED <<summary, otherVars, exportVars, export_enabled, exclude_subscriptions, env_push, cfg_push,
                   la_enabled, results, subscription_result, status, git_push_status,
                   push_calls, sub_dirs, results_file, exit_status>>

\* log_analytics.send_subscription_backup_status(...) at the end of the try block,
\* in a try/except of its own: whatever the call does, the loop goes on
main_telemetry ==
    /\ main_pc = "telemetry"
    /\ LET sub == Subscriptions[sub_idx] IN
       \E post_ok \in BOOLEAN :
          LET call == send_subscription_backup_status(la_records, MainKeywords,
                          backup_status_record(sub.id, name_of(sub), status,
                              get(subscription_result, "total_rgs", 0),
                              get(subscription_result, "successful_rgs", 0),
                              get(subscription_result, "failed_rgs", 0),
                              git_push_status, error_message),
                          la_enabled, post_ok)
          IN
          /\ la_records' = call.posted
          /\ la_answers' = Append(la_answers, call.answer)
    /\ sub_idx' = sub_idx + 1
    /\ main_pc' = "loop"
    /\ UNCHANGED <<summary, otherVars, exportVars, export_enabled, exclude_subscriptions, env_push, cfg_push,
                   la_enabled, results, subscription_result, status, git_push_status,
                   error_message, push_calls, sub_dirs, results_file, exit_status>>

\* except Exception as e: the error is recorded in results, a failed record is sent,
\* and the loop goes on
main_except ==
    /\ main_pc = "except"
    /\ LET sub == Subscriptions[sub_idx] IN
       \E post_ok \in BOOLEAN :
          LET call == send_subscription_backup_status(la_records, MainKeywords,
                          backup_status_record(sub.id, name_of(sub), "failed", 0, 0, 0,
                                               "skipped", error_message),
                          la_enabled, post_ok)
          IN
          /\ results' = dict_set(results, sub.id,
                 [subscription_id |-> sub.id, subscription_name |-> name_of(sub),
                  error |-> error_message])
          /\ la_records' = call.posted
          /\ la_answers' = Append(la_answers, call.answer)
    /\ sub_idx' = sub_idx + 1
    /\ main_pc' = "loop"
    /\ UNCHANGED <<summary, otherVars, exportVars, export_enabled, exclude_subscriptions, env_push, cfg_push,
                   la_enabled, subscription_result, status, git_push_status,
                   error_message, push_calls, sub_dirs, results_file, exit_status>>

RECURSIVE sum_of(_, _, _)
\* sum(r.get(key, 0) for r in results.values()), from entry i on
sum_of(res, key, i) ==
    IF i > Len(res) THEN 0 ELSE get(res[i].value, key, 0) + sum_of(res, key, i + 1)

RECURSIVE count_without_failures(_, _)
\* the entries from i on that exported something and failed nowhere
count_without_failures(res, i) ==
    IF i > Len(res) THEN 0
    ELSE (IF get(res[i].value, "successful_rgs", 0) > 0
             /\ get(res[i].value, "failed_rgs", 0) = 0 THEN 1 ELSE 0)
         + count_without_failures(res, i + 1)

RECURSIVE count_successful(_, _)
\* sum(1 for r in results.values() if r.get('successful_rgs', 0) > 0), from entry i on
count_successful(res, i) ==
    IF i > Len(res) THEN 0
    ELSE (IF get(res[i].value, "successful_rgs", 0) > 0 THEN 1 ELSE 0)
         + count_successful(res, i + 1)

\* the figures main logs under "Export Summary"
summarize(res) ==
    [ total_subs      |-> Len(res),
      successful_subs |-> count_successful(res, 1),
      total_rgs       |-> sum_of(res, "total_rgs", 1),
      successful_rgs  |-> sum_of(res, "successful_rgs", 1) ]

\* the exit code with every subscription's failure counted as a failed run
finish_exit_code_by_success(res) ==
    IF \E i \in 1..Len(res) : get(res[i].value, "successful_rgs", 0) > 0 THEN 0 ELSE 1

\* if not results: sys.exit(1); a main that returns ends the process with code 0
finish_exit_code(res) == IF res = <<>> THEN 1 ELSE 0

\* after the loop: exit 1 on an empty result set, else write export_results.json
main_finish ==
    /\ main_pc = "loop"
    /\ sub_idx > Len(Subscriptions)
    /\ exit_status' = Some(finish_exit_code(results))
    /\ IF results = <<>>
          THEN UNCHANGED <<results_file, summary>>
          ELSE /\ summary' = Some(summarize(results))
               /\ results_file' = Some(results)
    /\ main_pc' = "done"
    /\ UNCHANGED <<otherVars, exportVars, export_enabled, exclude_subscriptions, env_push, cfg_push,
                   la_enabled, sub_idx, results, subscription_result, status,
                   git_push_status, error_message, push_calls, la_records, la_answers,
                   sub_dirs>>

\* no command is being built
CommandIdle ==
    /\ exclude_resource_types = <<>>
    /\ custom_query = <<>>
    /\ exclude_resource_groups = <<>>
    /\ resource_types = <<>>
    /\ exclude_resources = <<>>
    /\ cmd_rg = <<>>
    /\ cmd_pc = "idle"
    /\ cmd = <<>>

\* no listing is under way
ListingIdle ==
    /\ rgs_data = <<>>
    /\ exclude_patterns = <<>>
    /\ rg_pos = 0
    /\ included_rgs = <<>>
    /\ excluded_rgs = <<>>
    /\ name_warnings = 0

\* no output is being read
ReadIdle ==
    /\ stream = <<>>
    /\ read_pos = 0
    /\ output_lines = <<>>
    /\ seen_lines = {}
    /\ echoed = <<>>

\* a Python value: its type and what it prints as
py(type, text) == [type |-> type, text |-> text]

\* no pipeline variable is being resolved
ResolveIdle ==
    /\ pv_pc = "idle"
    /\ pv_value = py("NoneType", <<>>)
    /\ environ = [n \in {} |-> Unset]
    /\ resolved = py("NoneType", <<>>)

\* the ways exclude_subscriptions is configured
ExcludeConfigs ==
    { exclude_list(<<>>), exclude_list(<<"s2">>),
      exclude_map(<<>>, <<>>), exclude_map(<<"s2">>, <<>>), exclude_null }

Init ==
    /\ impl = "ExportManager"
    /\ create_rg_folders = TRUE
    /\ additional_flags = Some(<< <<"--continue">> >>)
    /\ es_pc = "start"
    /\ resource_groups = <<>>
    /\ rg_idx = 1
    /\ attempted = <<>>
    /\ sub_results = InitialSubResults(Subscriptions[1], <<>>)
    /\ ex_pc = "idle"
    /\ output_path = SubDir
    /\ result = InitialResult
    /\ exit_code = Unset
    /\ read_raised = FALSE
    /\ full_output = NoOutput
    /\ proc = NoProcess
    /\ fs = [d \in Dirs |-> 0]
    /\ main_pc = "start"
    /\ export_enabled \in [1..Len(Subscriptions) -> BOOLEAN]
    /\ exclude_subscriptions \in ExcludeConfigs
    /\ env_push \in BOOLEAN
    /\ cfg_push \in BOOLEAN
    /\ la_enabled \in BOOLEAN
    /\ sub_idx = 1
    /\ results = <<>>
    /\ subscription_result = NoResult
    /\ status = None
    /\ git_push_status = "skipped"
    /\ error_message = None
    /\ push_calls = <<>>
    /\ la_records = <<>>
    /\ la_answers = <<>>
    /\ sub_dirs = {}
    /\ results_file = Unset
    /\ exit_status = Unset
    /\ summary = Unset
    /\ cleanup_after_push \in BOOLEAN
    /\ CommandIdle
    /\ ReadIdle
    /\ ListingIdle
    /\ ResolveIdle

Next ==
    \/ main_start
    \/ main_fatal
    \/ main_skip
    \/ main_export
    \/ main_push
    \/ main_telemetry
    \/ main_except
    \/ main_finish

Spec == Init /\ [][Next]_vars

\* ------------------------------------------------------------------------
\* One call of export_subscription
\* ------------------------------------------------------------------------
InitExport ==
    /\ impl \in {"ExportManager", "ExportService"}
    /\ create_rg_folders \in BOOLEAN
    /\ additional_flags \in {Unset, Some(<< <<"--continue">> >>)}
    /\ es_pc = "start"
    /\ resource_groups = <<>>
    /\ rg_idx = 1
    /\ attempted = <<>>
    /\ sub_results = InitialSubResults(Subscriptions[1], <<>>)
    /\ ex_pc = "idle"
    /\ output_path = SubDir
    /\ result = InitialResult
    /\ exit_code = Unset
    /\ read_raised = FALSE
    /\ full_output = NoOutput
    /\ proc = NoProcess
    /\ fs = [d \in Dirs |-> 0]
    /\ main_pc = "idle"
    /\ export_enabled = [i \in 1..Len(Subscriptions) |-> TRUE]
    /\ exclude_subscriptions = exclude_list(<<>>)
    /\ env_push = FALSE
    /\ cfg_push = FALSE
    /\ la_enabled = FALSE
    /\ sub_idx = 1
    /\ results = <<>>
    /\ subscription_result = NoResult
    /\ status = None
    /\ git_push_status = "skipped"
    /\ error_message = None
    /\ push_calls = <<>>
    /\ la_records = <<>>
    /\ la_answers = <<>>
    /\ sub_dirs = {}
    /\ results_file = Unset
    /\ exit_status = Unset
    /\ summary = Unset
    /\ cleanup_after_push = FALSE
    /\ CommandIdle
    /\ ReadIdle
    /\ ListingIdle
    /\ ResolveIdle

\* the steps the interpreter and the clock take by themselves
ExportProgress ==
    \/ export_subscription_start
    \/ export_subscription_call
    \/ export_subscription_fold
    \/ export_subscription_propagate
    \/ export_resource_group_prepare
    \/ export_resource_group_build
    \/ export_resource_group_launch
    \/ export_resource_group_read_eof
    \/ export_resource_group_wait
    \/ export_resource_group_timeout
    \/ export_resource_group_classify
    \/ service_export_subscription_start
    \/ service_export_subscription_run
    \/ proc_exit

\* what the tool or the platform may or may not do
ExportEnvironment ==
    \/ proc_close_stdout
    \/ export_resource_group_read_raise

NextExport == ExportProgress \/ ExportEnvironment

SpecExport == InitExport /\ [][NextExport]_vars

\* every step the interpreter can take is taken, a terminating tool exits, and a
\* wait on a running process ends when its timeout elapses
FairSpecExport == SpecExport /\ WF_vars(ExportProgress)

\* ------------------------------------------------------------------------
\* Building the export command
\* ------------------------------------------------------------------------
\* Text is a sequence of pieces; a single quote is always a piece of its own.
t_foo == <<"Microsoft.Foo/bar">>
t_quote == <<"Microsoft.O", "'", "Neil/x">>
TypeNames == {t_foo, t_quote}

\* the sequences over S of length at most n
SeqsUpTo(S, n) == UNION {[1..k -> S] : k \in 0..n}

\* a custom Resource Graph predicate
q_vm == <<"type =~ ", "'", "Microsoft.Compute/virtualMachines", "'">>

RECURSIVE replace_quote(_)
\* str.replace("'", "''")
replace_quote(t) ==
    IF t = <<>> THEN <<>>
    ELSE (IF Head(t) = "'" THEN <<"'", "'">> ELSE <<Head(t)>>) \o replace_quote(Tail(t))

RECURSIVE join(_, _)
\* sep.join(parts)
join(parts, sep) ==
    IF parts = <<>> THEN <<>>
    ELSE IF Len(parts) = 1 THEN parts[1]
    ELSE parts[1] \o sep \o join(Tail(parts), sep)

\* str.strip(): leading and trailing blanks removed
strip(t) ==
    LET kept == {i \in 1..Len(t) : t[i] # " "} IN
    IF kept = {} THEN <<>>
    ELSE SubSeq(t, CHOOSE i \in kept : \A j \in kept : i <= j,
                   CHOOSE i \in kept : \A j \in kept : j <= i)

\* f"type != '{escaped_type}'"
type_condition(resource_type) ==
    <<"type != ", "'">> \o replace_quote(resource_type) \o <<"'">>

\* f"resourceGroup != '{escaped_rg}'"
rg_condition(rg) == <<"resourceGroup != ", "'">> \o replace_quote(rg) \o <<"'">>

\* _build_resource_graph_query with the type conditions taking precedence
build_resource_graph_query_types_first(types, custom) ==
    IF types # <<>>
       THEN join([i \in 1..Len(types) |-> type_condition(types[i])], <<" and ">>)
       ELSE custom

\* ExportManager._build_resource_graph_query
build_resource_graph_query(types, custom) ==
    IF custom # <<>> THEN custom
    ELSE IF types = <<>> THEN <<>>
    ELSE join([i \in 1..Len(types) |-> type_condition(types[i])], <<" and ">>)

\* ExportService._build_resource_graph_query
service_build_resource_graph_query(types, rgs, custom) ==
    IF custom # <<>> THEN custom
    ELSE join([i \in 1..Len(types) |-> type_condition(types[i])]
              \o [i \in 1..Len(rgs) |-> rg_condition(rgs[i])], <<" and ">>)

\* use_query_mode decided by the excluded types alone
use_query_mode_types_only(types, custom) == types # <<>>

\* use_query_mode = bool(exclude_resource_types) or bool(custom_query)
use_query_mode(types, custom) == types # <<>> \/ custom # <<>>

\* ExportService: ... or bool(all_exclude_rgs) ...
service_use_query_mode(types, rgs, custom) == types # <<>> \/ rgs # <<>> \/ custom # <<>>

\* f"{query} and resourceGroup == '{rg_name}'" if rg_name, else the query alone
query_with_rg(query, rg_name) ==
    IF rg_name # <<>>
       THEN query \o <<" and ", "resourceGroup == ", "'">> \o rg_name \o <<"'">>
       ELSE query

RECURSIVE flag_pairs(_, _)
\* for x in items: cmd.extend([flag, x])
flag_pairs(flag, items) ==
    IF items = <<>> THEN <<>>
    ELSE <<flag, Head(items)>> \o flag_pairs(flag, Tail(items))

\* the fixed head of a command
command_head(mode, subscription_id, out) ==
    << <<"aztfexport">>, mode, <<"--subscription-id">>, subscription_id,
       <<"--output-dir">>, out, <<"--non-interactive">>, <<"--plain-ui">> >>

\* the two calls in the other order: cmd.append(last); cmd.extend(additional_flags)
append_extend(c, flags, last) == c \o <<last>> \o flags

\* cmd.extend(additional_flags); cmd.append(last)
extend_append(c, flags, last) == c \o flags \o <<last>>

\* the command _export_resource_group builds; additional_flags of None makes
\* cmd.extend raise TypeError
export_resource_group_command(subscription_id, out, rg, types, custom, rts, ers, flags) ==
    LET rg_name == strip(rg)
        query == build_resource_graph_query(types, custom)
    IN  IF flags = Unset THEN [raised |-> TRUE, cmd |-> <<>>]
        ELSE IF use_query_mode(types, custom) /\ query # <<>>
           THEN [raised |-> FALSE,
                 cmd |-> extend_append(command_head(<<"query">>, subscription_id, out),
                                       flags[1], query_with_rg(query, rg_name))]
           ELSE [raised |-> FALSE,
                 cmd |-> extend_append(
                             command_head(<<"resource-group">>, subscription_id, out)
                                 \o flag_pairs(<<"--resource-type">>, rts)
                                 \o flag_pairs(<<"--exclude">>, ers),
                             flags[1], rg_name)]

\* the command ExportService.export_subscription builds
service_command(subscription_id, out, types, rgs, custom, rts, ers, flags) ==
    LET query == service_build_resource_graph_query(types, rgs, custom)
    IN  IF flags = Unset THEN [raised |-> TRUE, cmd |-> <<>>]
        ELSE IF service_use_query_mode(types, rgs, custom) /\ query # <<>>
           THEN [raised |-> FALSE,
                 cmd |-> extend_append(command_head(<<"query">>, subscription_id, out),
                                       flags[1], query)]
           ELSE [raised |-> FALSE,
                 cmd |-> command_head(<<"subscription">>, subscription_id, out)
                             \o flag_pairs(<<"--resource-type">>, rts)
                             \o flag_pairs(<<"--exclude">>, ers)
                             \o flags[1]]

\* str(output_path) of the command being built
OutDir == <<"exports/s1">>

\* _export_resource_group, lines 366-420
build_command ==
    /\ cmd_pc = "ready"
    /\ impl = "ExportManager"
    /\ LET built == export_resource_group_command(<<Subscriptions[1].id>>, OutDir, cmd_rg,
                         exclude_resource_types, custom_query, resource_types,
                         exclude_resources, additional_flags)
       IN  /\ cmd' = built.cmd
           /\ cmd_pc' = IF built.raised THEN "raised" ELSE "built"
    /\ UNCHANGED <<exportVars, mainVars, cleanup_after_push, resolveVars, readVars, listingVars,
                   exclude_resource_types, custom_query, exclude_resource_groups,
                   resource_types, exclude_resources, cmd_rg>>

\* ExportService.export_subscription, lines 125-186
service_build_command ==
    /\ cmd_pc = "ready"
    /\ impl = "ExportService"
    /\ LET built == service_command(<<Subscriptions[1].id>>, OutDir,
                         exclude_resource_types, exclude_resource_groups, custom_query,
                         resource_types, exclude_resources, additional_flags)
       IN  /\ cmd' = built.cmd
           /\ cmd_pc' = IF built.raised THEN "raised" ELSE "built"
    /\ UNCHANGED <<exportVars, mainVars, cleanup_after_push, resolveVars, readVars, listingVars,
                   exclude_resource_types, custom_query, exclude_resource_groups,
                   resource_types, exclude_resources, cmd_rg>>

\* export_subscription and _export_resource_group before the first call
ExportIdle ==
    /\ create_rg_folders = TRUE
    /\ es_pc = "start"
    /\ resource_groups = <<>>
    /\ rg_idx = 1
    /\ attempted = <<>>
    /\ sub_results = InitialSubResults(Subscriptions[1], <<>>)
    /\ ex_pc = "idle"
    /\ output_path = SubDir
    /\ result = InitialResult
    /\ exit_code = Unset
    /\ read_raised = FALSE
    /\ full_output = NoOutput
    /\ proc = NoProcess
    /\ fs = [d \in Dirs |-> 0]

\* main is not running
MainIdle ==
    /\ main_pc = "idle"
    /\ export_enabled = [i \in 1..Len(Subscriptions) |-> TRUE]
    /\ exclude_subscriptions = exclude_list(<<>>)
    /\ env_push = FALSE
    /\ cfg_push = FALSE
    /\ la_enabled = FALSE
    /\ sub_idx = 1
    /\ results = <<>>
    /\ subscription_result = NoResult
    /\ status = None
    /\ git_push_status = "skipped"
    /\ error_message = None
    /\ push_calls = <<>>
    /\ la_records = <<>>
    /\ la_answers = <<>>
    /\ sub_dirs = {}
    /\ results_file = Unset
    /\ exit_status = Unset
    /\ summary = Unset
    /\ cleanup_after_push = FALSE

\* the configurations a command is built from
InitCommand ==
    /\ ExportIdle
    /\ MainIdle
    /\ ResolveIdle
    /\ impl \in {"ExportManager", "ExportService"}
    /\ additional_flags \in {Unset, Some(<<>>), Some(<< <<"--continue">> >>),
                              Some(<< <<"--parallelism">>, <<"5">> >>)}
    /\ exclude_resource_types \in SeqsUpTo(TypeNames, MaxTypes)
    /\ custom_query \in {<<>>, q_vm}
    /\ exclude_resource_groups \in {<<>>, <<rg_a>>}
    /\ resource_types \in {<<>>, <<t_foo>>}
    /\ exclude_resources \in {<<>>, << <<"/subscriptions/s1/x">> >>}
    /\ cmd_rg \in Elements(CliOrder)
    /\ cmd_pc = "ready"
    /\ cmd = <<>>
    /\ ReadIdle
    /\ ListingIdle

NextCommand == build_command \/ service_build_command

SpecCommand == InitCommand /\ [][NextCommand]_vars

\* ------------------------------------------------------------------------
\* The output read loop
\* ------------------------------------------------------------------------
\* the lines a tool writes: a progress line, the same with trailing blanks, another
Lines == { <<"a">>, <<"a", " ">>, <<"b">> }

\* str.rstrip(): trailing blanks removed
rstrip(t) ==
    LET kept == {i \in 1..Len(t) : t[i] # " "} IN
    IF kept = {} THEN <<>>
    ELSE SubSeq(t, 1, CHOOSE i \in kept : \A j \in kept : j <= i)

\* one pass of `for line in iter(process.stdout.readline, '')` on a line not seen
\* before: it is remembered, buffered and echoed
read_new_line ==
    /\ read_pos \in 1..Len(stream)
    /\ LET line == rstrip(stream[read_pos]) IN
       /\ line \notin seen_lines
       /\ seen_lines' = seen_lines \cup {line}
       /\ output_lines' = Append(output_lines, line)
       /\ echoed' = Append(echoed, line)
    /\ read_pos' = read_pos + 1
    /\ UNCHANGED <<exportVars, mainVars, cleanup_after_push, resolveVars, commandVars, listingVars,
                   stream>>

\* one pass of the loop on a line seen before: nothing is done with it
read_repeated_line ==
    /\ read_pos \in 1..Len(stream)
    /\ rstrip(stream[read_pos]) \in seen_lines
    /\ read_pos' = read_pos + 1
    /\ UNCHANGED <<exportVars, mainVars, cleanup_after_push, resolveVars, commandVars, listingVars,
                   stream, output_lines, seen_lines, echoed>>

\* the subprocess has been launched and is about to write its lines
InitRead ==
    /\ ExportIdle
    /\ MainIdle
    /\ ResolveIdle
    /\ CommandIdle
    /\ impl \in {"ExportManager", "ExportService"}
    /\ additional_flags = Some(<<>>)
    /\ ListingIdle
    /\ stream \in SeqsUpTo(Lines, MaxLines)
    /\ read_pos = 1
    /\ output_lines = <<>>
    /\ seen_lines = {}
    /\ echoed = <<>>

NextRead == read_new_line \/ read_repeated_line

SpecRead == InitRead /\ [][NextRead]_vars

\* ------------------------------------------------------------------------
\* Listing resource groups
\* ------------------------------------------------------------------------
\* str.lower()
lower(t) == [i \in 1..Len(t) |-> LowerChar(t[i])]

RECURSIVE fnmatchcase(_, _)
\* fnmatch.fnmatchcase for patterns of literal characters, * and ?
fnmatchcase(name, pat) ==
    IF pat = <<>> THEN name = <<>>
    ELSE IF Head(pat) = "*"
       THEN \/ fnmatchcase(name, Tail(pat))
            \/ (name # <<>> /\ fnmatchcase(Tail(name), pat))
    ELSE IF Head(pat) = "?"
       THEN name # <<>> /\ fnmatchcase(Tail(name), Tail(pat))
    ELSE /\ name # <<>>
         /\ Head(name) = Head(pat)
         /\ fnmatchcase(Tail(name), Tail(pat))

\* the test of one pattern with rg_name taken as it is, not lowered
pattern_matches_raw_name(rg_name, pattern) ==
    \/ rg_name = lower(pattern)
    \/ fnmatchcase(rg_name, lower(pattern))

\* the test of one pattern: case-insensitive exact match, then wildcard match
pattern_matches(rg_name, pattern) ==
    \/ lower(rg_name) = lower(pattern)
    \/ fnmatchcase(lower(rg_name), lower(pattern))

\* ExportManager._matches_exclude_pattern
matches_exclude_pattern(rg_name, patterns) ==
    \E i \in 1..Len(patterns) : pattern_matches(rg_name, patterns[i])

\* the pattern loop of _get_resource_groups: the first pattern that matches, in a
\* one-element list, or the empty list when none does (matching_pattern = None)
matching_pattern(rg_name, patterns) ==
    LET hits == {i \in 1..Len(patterns) : pattern_matches(rg_name, patterns[i])} IN
    IF hits = {} THEN Unset
    ELSE Some(patterns[CHOOSE i \in hits : \A j \in hits : i <= j])

\* the names `az group list` may print
RawNames ==
    { <<"r", "g">>, <<"R", "G">>, <<" ", "r", "g", " ">>, <<"r", "s">>, <<" ">>, <<>> }

\* the exclusion patterns a configuration may hold
Patterns == { <<"r", "g">>, <<"R", "*">>, <<"?", "s">>, <<"*", "G">> }

\* for rg in rgs_data: a name that is empty once trimmed is passed over
list_skip_empty ==
    /\ rg_pos \in 1..Len(rgs_data)
    /\ strip(rgs_data[rg_pos]) = <<>>
    /\ rg_pos' = rg_pos + 1
    /\ UNCHANGED <<exportVars, mainVars, cleanup_after_push, resolveVars, commandVars, readVars,
                   rgs_data, exclude_patterns, included_rgs, excluded_rgs,
                   name_warnings>>

\* for rg in rgs_data: a name some pattern matches goes to excluded_rgs with the
\* first such pattern
list_exclude ==
    /\ rg_pos \in 1..Len(rgs_data)
    /\ LET rg_name == strip(rgs_data[rg_pos])
           found == matching_pattern(rg_name, exclude_patterns)
       IN  /\ rg_name # <<>>
           /\ found # Unset
           /\ found[1] # <<>>
           /\ excluded_rgs' = Append(excluded_rgs, <<rg_name, found[1]>>)
    /\ rg_pos' = rg_pos + 1
    /\ UNCHANGED <<exportVars, mainVars, cleanup_after_push, resolveVars, commandVars, readVars,
                   rgs_data, exclude_patterns, included_rgs, name_warnings>>

\* for rg in rgs_data: a name no pattern matches is appended to resource_groups
list_include ==
    /\ rg_pos \in 1..Len(rgs_data)
    /\ LET rg_name == strip(rgs_data[rg_pos])
           found == matching_pattern(rg_name, exclude_patterns)
       IN  /\ rg_name # <<>>
           /\ (IF found = Unset THEN TRUE ELSE found[1] = <<>>)
           /\ included_rgs' = Append(included_rgs, rg_name)
    /\ rg_pos' = rg_pos + 1
    /\ UNCHANGED <<exportVars, mainVars, cleanup_after_push, resolveVars, commandVars, readVars,
                   rgs_data, exclude_patterns, excluded_rgs, name_warnings>>

\* `az group list` has answered and the loop over its names begins
InitListing ==
    /\ ExportIdle
    /\ MainIdle
    /\ ResolveIdle
    /\ CommandIdle
    /\ ReadIdle
    /\ impl = "ExportManager"
    /\ additional_flags = Some(<<>>)
    /\ rgs_data \in SeqsUpTo(RawNames, MaxRgs)
    /\ exclude_patterns \in SeqsUpTo(Patterns, MaxPatterns)
    /\ rg_pos = 1
    /\ included_rgs = <<>>
    /\ excluded_rgs = <<>>
    /\ name_warnings = 0

NextListing == list_skip_empty \/ list_exclude \/ list_include

SpecListing == InitListing /\ [][NextListing]_vars

\* ------------------------------------------------------------------------
\* Resolving a pipeline variable (scripts/find-subscription-spn.py and the two
\* other scripts that carry the same function)
\* ------------------------------------------------------------------------
\* the name of the one variable the environment may hold
FOO == <<"F">>

\* the arguments: strings over the characters of $(F), and values of other types
PipelineValues ==
    {py("str", t) : t \in SeqsUpTo({"$", "(", ")", "F"}, MaxValueLen)}
    \cup {py("int", <<"7">>), py("NoneType", <<>>), py("list", <<"$", "(", "F", ")">>)}

\* the environments: FOO unset, set to the empty string, set to a value
Environments == [{FOO} -> {Unset, Some(<<>>), Some(<<"b">>)}]

\* os.getenv(name): None for a name the environment does not hold
getenv(env, name) == IF name \in DOMAIN env THEN env[name] ELSE Unset

\* str.startswith and str.endswith
startswith(t, prefix) == Len(t) >= Len(prefix) /\ SubSeq(t, 1, Len(prefix)) = prefix
endswith(t, suffix) ==
    Len(t) >= Len(suffix) /\ SubSeq(t, Len(t) - Len(suffix) + 1, Len(t)) = suffix

\* the function as written: a non-string is returned as it is; for $(NAME) the
\* value of NAME is returned `if env_value:`, that is when it is neither None nor ''
resolve_pipeline_variable(value, env) ==
    IF value.type # "str" THEN value
    ELSE IF startswith(value.text, <<"$", "(">>) /\ endswith(value.text, <<")">>)
       THEN LET var_name == SubSeq(value.text, 3, Len(value.text) - 1)
                env_value == getenv(env, var_name)
            IN IF env_value # Unset /\ env_value[1] # <<>>
                  THEN py("str", env_value[1])
                  ELSE value
       ELSE value

\* one call of the function
resolve_call ==
    /\ pv_pc = "call"
    /\ resolved' = resolve_pipeline_variable(pv_value, environ)
    /\ pv_pc' = "returned"
    /\ UNCHANGED <<exportVars, mainVars, cleanup_after_push, commandVars, readVars,
                   listingVars, pv_value, environ>>

InitResolve ==
    /\ ExportIdle
    /\ MainIdle
    /\ CommandIdle
    /\ ReadIdle
    /\ ListingIdle
    /\ impl = "ExportManager"
    /\ additional_flags = Some(<<>>)
    /\ pv_pc = "call"
    /\ pv_value \in PipelineValues
    /\ environ \in Environments
    /\ resolved = py("NoneType", <<>>)

NextResolve == resolve_call

SpecResolve == InitResolve /\ [][NextResolve]_vars

\* ------------------------------------------------------------------------
\* Claims about the export executor and export_subscription (SpecExport)
\* ------------------------------------------------------------------------
\* C1 as stated: the returned outcome has success = true if and only if the tool
\* exited with code 0 and at least one .tf file exists under the output directory.
C1_SuccessIffExitZeroAndTf ==
    ex_pc = "returned" =>
        (result.success <=> (proc.code = Some(0) /\ tf_files(fs, output_path) > 0))

\* C1 amended: the returned outcome has success = true if and only if the tool exited
\* with code 0, at least one .tf file exists under the output directory and no
\* exception was raised during the call; exit code 0 with no .tf file is a failure.
C1_SuccessIffCleanExitZeroAndTf ==
    ex_pc = "returned" =>
        (result.success <=>
            (~read_raised /\ proc.code = Some(0) /\ tf_files(fs, output_path) > 0))

\* the regression case of C1: exit code 0, no .tf file, reported as a failure
C1_Witness ==
    /\ ex_pc = "returned"
    /\ proc.code = Some(0)
    /\ ~read_raised
    /\ tf_files(fs, output_path) = 0
    /\ ~result.success

\* C2: once export_subscription has returned, successful_rgs + failed_rgs = total_rgs,
\* in ExportManager and in ExportService, whatever the outcomes were.
C2_CountsAddUp ==
    es_pc = "returned" =>
        sub_results.successful_rgs + sub_results.failed_rgs = sub_results.total_rgs

\* ExportManager returned from a subscription with a success and a failure
C2_Witness ==
    /\ impl = "ExportManager"
    /\ es_pc = "returned"
    /\ sub_results.successful_rgs >= 1
    /\ sub_results.failed_rgs >= 1

\* C3: no exception ever leaves _export_resource_group.
C3_NeverPropagates == ex_pc # "raised"

\* C4: when the tool never terminates, the executor still returns, with
\* error_type = timeout and success = false, and the tool has been killed.
C4_TimeoutReturns ==
    (proc.state = "running" /\ ~proc.terminates)
        ~> (/\ ex_pc = "returned"
            /\ result.error_type = "timeout"
            /\ ~result.success
            /\ proc.state = "killed")

\* C6: when ExportManager.export_subscription is over, every resource group of the
\* list was attempted, in list order, and has a record with status success or failed.
C6_EveryGroupAttempted ==
    (impl = "ExportManager" /\ es_pc \in {"returned", "raised"}) =>
        /\ attempted = resource_groups
        /\ Len(sub_results.resource_groups) = Len(resource_groups)
        /\ \A i \in 1..Len(resource_groups) :
              /\ sub_results.resource_groups[i].key = resource_groups[i]
              /\ sub_results.resource_groups[i].value.status \in {"success", "failed"}

\* ------------------------------------------------------------------------
\* Claims about main (Spec)
\* ------------------------------------------------------------------------
\* the keys of main's results dict
result_keys == {results[i].key : i \in 1..Len(results)}

\* C5: after the loop the keys of results are exactly the ids of the configured
\* subscriptions that are export-enabled and not listed in exclude_subscriptions.
C5_ResultKeys ==
    main_pc = "done" =>
        result_keys =
            {Subscriptions[i].id : i \in
                {j \in 1..Len(Subscriptions) :
                    /\ export_enabled[j]
                    /\ Subscriptions[j].id \notin
                           listed_for_exclusion(exclude_subscriptions)}}

\* C7: the step that sends a subscription's status leaves results, the git push
\* status, the push calls and the exit code as they are and moves on to the next
\* subscription, whatever the sender answers; on the error path results gets the
\* error entry and the loop moves on likewise.
C7_TelemetryFirewall ==
    [][ /\ main_pc = "telemetry" =>
              /\ results' = results
              /\ git_push_status' = git_push_status
              /\ push_calls' = push_calls
              /\ exit_status' = exit_status
              /\ sub_idx' = sub_idx + 1
              /\ main_pc' = "loop"
        /\ main_pc = "except" =>
              /\ Len(results') = Len(results) + 1
              /\ sub_idx' = sub_idx + 1
              /\ main_pc' = "loop" ]_vars

\* a run in which both sends raised, on the error path and on the success path, and
\* both subscriptions are in results, the second one exported, and the exit code is 0
C7_Witness ==
    /\ main_pc = "done"
    /\ la_answers = <<"raise", "raise">>
    /\ get(results[1].value, "error", None) # None
    /\ result_keys = {"s1", "s2"}
    /\ get(results[2].value, "successful_rgs", 0) > 0
    /\ exit_status = Some(0)

\* the git push status main recorded for subscription id, read off the push calls
recorded_push_status(id) ==
    IF \E i \in 1..Len(push_calls) : push_calls[i].id = id
       THEN IF \E i \in 1..Len(push_calls) :
                   push_calls[i].id = id /\ push_calls[i].answer = "True"
               THEN "success" ELSE "failed"
       ELSE "skipped"

\* C8: with the sink enabled, between two subscriptions and at the end of the run
\* every processed subscription has exactly one posted record, in processing order,
\* carrying its id, name, status, resource-group counts and git push status.
C8_RecordPerSubscription ==
    (la_enabled /\ main_pc \in {"loop", "done"}) =>
        /\ Len(la_records) = Len(results)
        /\ \A i \in 1..Len(results) :
              LET rec == la_records[i]
                  r == results[i].value
              IN  /\ rec.SubscriptionId = results[i].key
                  /\ rec.SubscriptionName = r.subscription_name
                  /\ rec.Status = determine_status(r)
                  /\ rec.TotalResourceGroups = get(r, "total_rgs", 0)
                  /\ rec.SuccessfulResourceGroups = get(r, "successful_rgs", 0)
                  /\ rec.FailedResourceGroups = get(r, "failed_rgs", 0)
                  /\ rec.GitPushStatus = recorded_push_status(results[i].key)

\* push_subscription_to_git was called for the subscription main is processing
push_attempted ==
    \E i \in 1..Len(push_calls) : push_calls[i].id = Subscriptions[sub_idx].id

\* C9: past the push gate, a push was attempted for the subscription if and only if
\* the push flag is set (environment or configuration) and successful_rgs > 0; with
\* no attempt git_push_status is still 'skipped'.
C9_PushGate ==
    main_pc = "telemetry" =>
        /\ push_attempted <=>
              ((env_push \/ cfg_push)
                  /\ get(subscription_result, "successful_rgs", 0) > 0)
        /\ ~push_attempted => git_push_status = "skipped"

\* a push attempted on the strength of git.push_to_repos alone
C9_Witness ==
    /\ main_pc = "telemetry"
    /\ push_attempted
    /\ cfg_push
    /\ ~env_push

\* C10: every call of push_subscription_to_git answers what the Git collaborator
\* answers, without raising, and main records 'success' after a successful push.
C10_PushAnswersCollaborator ==
    /\ \A i \in 1..Len(push_calls) : push_calls[i].answer = push_calls[i].collaborator
    /\ (main_pc = "telemetry" /\ push_attempted
           /\ push_calls[Len(push_calls)].collaborator = "True")
          => git_push_status = "success"

\* the push main made for the subscription it is processing handed the Git
\* collaborator a commit-and-push that succeeds
push_succeeded ==
    \E i \in 1..Len(push_calls) :
        /\ push_calls[i].id = Subscriptions[sub_idx].id
        /\ push_calls[i].collaborator = "True"

C12_ExcludedSkipped ==
    /\ \A j \in 1..Len(Subscriptions) :
          Subscriptions[j].id \in listed_for_exclusion(exclude_subscriptions)
              => is_excluded(Subscriptions[j], exclude_subscriptions)
    /\ result_keys \cap listed_for_exclusion(exclude_subscriptions) = {}

\* ------------------------------------------------------------------------
\* Claims about the export command (SpecCommand)
\* ------------------------------------------------------------------------
\* the command that was built runs the tool in query mode
in_query_mode == cmd[2] = <<"query">>

\* the command that was built runs the tool in the direct mode of its implementation
in_direct_mode ==
    cmd[2] = IF impl = "ExportManager" THEN <<"resource-group">> ELSE <<"subscription">>

\* C13 as stated: in ExportManager and in ExportService the command is built in query
\* mode if and only if exclude_resource_types is non-empty or a custom query is
\* configured, and in direct mode otherwise.
C13_QueryModeIff ==
    cmd_pc = "built" =>
        IF exclude_resource_types # <<>> \/ custom_query # <<>>
           THEN in_query_mode ELSE in_direct_mode

\* C13 amended: the command is built in query mode if and only if exclude_resource_types
\* is non-empty or a custom query is configured or, in ExportService only, resource
\* groups are configured for exclusion; in direct mode otherwise.
C13_QueryModeIffWithGroups ==
    cmd_pc = "built" =>
        IF \/ exclude_resource_types # <<>>
           \/ custom_query # <<>>
           \/ (impl = "ExportService" /\ exclude_resource_groups # <<>>)
           THEN in_query_mode ELSE in_direct_mode

\* ExportService built a query-mode command on the strength of excluded resource
\* groups alone
C13_Witness ==
    /\ cmd_pc = "built"
    /\ impl = "ExportService"
    /\ exclude_resource_types = <<>>
    /\ custom_query = <<>>
    /\ exclude_resource_groups # <<>>
    /\ in_query_mode

RECURSIVE quotes_doubled(_)
\* text with every single quote written twice
quotes_doubled(t) ==
    IF t = <<>> THEN <<>>
    ELSE quotes_doubled(SubSeq(t, 1, Len(t) - 1))
         \o (IF t[Len(t)] = "'" THEN <<"'", "'">> ELSE <<t[Len(t)]>>)

RECURSIVE type_conditions_from(_, _)
\* type != '<t>' for the excluded types from position i on, joined by " and "
type_conditions_from(types, i) ==
    <<"type != ", "'">> \o quotes_doubled(types[i]) \o <<"'">>
    \o (IF i = Len(types) THEN <<>> ELSE <<" and ">> \o type_conditions_from(types, i + 1))

\* C14: in query mode for resource group rg, ExportManager passes the predicate
\* base + " and resourceGroup == 'rg'", base being the custom predicate when one is
\* configured and otherwise the conditions type != '<t>' for the excluded types in
\* configured order, quotes doubled, joined by " and ".
C14_Predicate ==
    (cmd_pc = "built" /\ impl = "ExportManager" /\ in_query_mode) =>
        cmd[Len(cmd)] =
            (IF custom_query # <<>> THEN custom_query
             ELSE type_conditions_from(exclude_resource_types, 1))
            \o <<" and ", "resourceGroup == ", "'">> \o cmd_rg \o <<"'">>

\* types [Microsoft.Foo/bar] and resource group rg give
\* "type != 'Microsoft.Foo/bar' and resourceGroup == 'rg'"
C14_Witness ==
    /\ cmd_pc = "built"
    /\ impl = "ExportManager"
    /\ exclude_resource_types = <<t_foo>>
    /\ cmd_rg = rg_a
    /\ cmd[Len(cmd)] = <<"type != ", "'", "Microsoft.Foo/bar", "'", " and ",
                         "resourceGroup == ", "'", "r", "g", "'">>

\* C15: in every command ExportManager builds, the configured additional_flags sit
\* immediately before the last element, and the last element is the trailing
\* positional argument: the predicate in query mode, the resource-group name otherwise.
C15_FlagsBeforeLast ==
    (cmd_pc = "built" /\ impl = "ExportManager") =>
        LET n == Len(cmd)
            flags == additional_flags[1]
        IN  /\ n > Len(flags)
            /\ SubSeq(cmd, n - Len(flags), n - 1) = flags
            /\ cmd[n] = IF in_query_mode
                           THEN query_with_rg(
                                    build_resource_graph_query(exclude_resource_types,
                                                               custom_query), cmd_rg)
                           ELSE cmd_rg

\* a resource-group command with two additional flags and --resource-type,
\* --exclude options before them
C15_Witness ==
    /\ cmd_pc = "built"
    /\ impl = "ExportManager"
    /\ Len(additional_flags[1]) = 2
    /\ resource_types # <<>>
    /\ exclude_resources # <<>>
    /\ ~in_query_mode
    /\ cmd[Len(cmd)] = cmd_rg

\* ------------------------------------------------------------------------
\* Claims about the output read loop (SpecRead)
\* ------------------------------------------------------------------------
\* the lines read so far, as the loop sees them
lines_read == [i \in 1..(read_pos - 1) |-> rstrip(stream[i])]

RECURSIVE first_occurrences(_, _)
\* the lines of s from position i on that do not occur before their position
first_occurrences(s, i) ==
    IF i > Len(s) THEN <<>>
    ELSE (IF \E j \in 1..(i - 1) : s[j] = s[i] THEN <<>> ELSE <<s[i]>>)
         \o first_occurrences(s, i + 1)

\* the buffered transcript holds the first occurrence of each distinct line read,
\* in order of first appearance
transcript_deduplicated == output_lines = first_occurrences(lines_read, 1)

\* C16: while the output is streamed, the buffered transcript keeps only the first
\* occurrence of each distinct line, in order of first appearance, and every line
\* read, repeated lines included, has been echoed to standard output.
C16_DedupeAndEcho ==
    read_pos >= 1 =>
        /\ transcript_deduplicated
        /\ echoed = lines_read

\* C17: when the subprocess exits with a non-zero code (and nothing was raised), the
\* returned outcome is a failure whose error_type is 'permission' if the output holds
\* a permission keyword and 'other' in every other case, never none.
C17_NonZeroExitErrorType ==
    (ex_pc = "returned" /\ ~read_raised /\ exit_code # Unset /\ exit_code # Some(0)) =>
        /\ ~result.success
        /\ result.error_type =
               IF full_output.permission_kw THEN "permission" ELSE "other"

\* ------------------------------------------------------------------------
\* Claims about listing resource groups (SpecListing)
\* ------------------------------------------------------------------------
\* str.upper() on the letters of the model
upper(t) ==
    [i \in 1..Len(t) |->
        IF \E c \in DOMAIN UpperToLower : UpperToLower[c] = t[i]
           THEN CHOOSE c \in DOMAIN UpperToLower : UpperToLower[c] = t[i]
           ELSE t[i]]

\* the lists that hold the patterns of P in another order
Reorderings(P) == {[i \in 1..Len(P) |-> P[f[i]]] : f \in Permutations(1..Len(P))}

\* the trimmed names a listing may meet
TrimmedNames == {strip(n) : n \in RawNames}

\* C18: for the configured pattern list P and every name n, whether n is excluded
\* does not change when n or the patterns are written in another letter case, nor
\* when P is reordered; the pattern reported is the first of P that matches.
C18_CaseAndOrderIndependent ==
    \A n \in TrimmedNames :
        LET P == exclude_patterns
            is_match == matches_exclude_pattern(n, P)
        IN  /\ matches_exclude_pattern(lower(n), P) = is_match
            /\ matches_exclude_pattern(upper(n), P) = is_match
            /\ matches_exclude_pattern(n, [i \in 1..Len(P) |-> upper(P[i])]) = is_match
            /\ matches_exclude_pattern(n, [i \in 1..Len(P) |-> lower(P[i])]) = is_match
            /\ \A Q \in Reorderings(P) : matches_exclude_pattern(n, Q) = is_match
            /\ (matching_pattern(n, P) # Unset) = is_match
            /\ is_match =>
                  \E i \in 1..Len(P) :
                      /\ matching_pattern(n, P) = Some(P[i])
                      /\ matches_exclude_pattern(n, <<P[i]>>)
                      /\ \A j \in 1..(i - 1) : ~matches_exclude_pattern(n, <<P[j]>>)

\* a listing that excluded the name rg by the second of two patterns, "*G" written
\* in upper case, after the first, "?s", did not match
C18_Witness ==
    /\ rg_pos = Len(rgs_data) + 1
    /\ exclude_patterns = << <<"?", "s">>, <<"*", "G">> >>
    /\ \E i \in 1..Len(excluded_rgs) :
          excluded_rgs[i] = << <<"r", "g">>, <<"*", "G">> >>

RECURSIVE names_kept(_, _, _)
\* the trimmed non-empty names of data from position i on that are matched by some
\* pattern (matched = TRUE) or by none (matched = FALSE), in order
names_kept(data, i, matched) ==
    IF i > Len(data) THEN <<>>
    ELSE LET n == strip(data[i]) IN
         (IF n # <<>> /\ matches_exclude_pattern(n, exclude_patterns) = matched
             THEN <<n>> ELSE <<>>)
         \o names_kept(data, i + 1, matched)

\* every name that is non-empty once trimmed is, trimmed and in CLI order, in exactly
\* one of the two lists, the excluded ones with their first matching pattern
listing_partitioned ==
    /\ included_rgs = names_kept(rgs_data, 1, FALSE)
    /\ Len(excluded_rgs) = Len(names_kept(rgs_data, 1, TRUE))
    /\ \A i \in 1..Len(excluded_rgs) :
          /\ excluded_rgs[i][1] = names_kept(rgs_data, 1, TRUE)[i]
          /\ Some(excluded_rgs[i][2]) = matching_pattern(excluded_rgs[i][1], exclude_patterns)

\* C19: when the listing is over, the names that are non-empty once trimmed are
\* partitioned, trimmed and in CLI order, into the included and the excluded list,
\* and every name that is empty or blank has been dropped with a warning.
C19_ListingPartition ==
    rg_pos = Len(rgs_data) + 1 =>
        /\ listing_partitioned
        /\ name_warnings = Cardinality({i \in 1..Len(rgs_data) : strip(rgs_data[i]) = <<>>})

\* ------------------------------------------------------------------------
\* Claims about the counters of export_subscription (SpecExport)
\* ------------------------------------------------------------------------
\* the counters of a subscription result
ResourceCounters ==
    {"total_resources", "exported_resources", "failed_resources", "skipped_resources"}

RECURSIVE sum_records(_, _, _)
\* the sum of one counter over the records of resource_groups from position i on
sum_records(records, counter, i) ==
    IF i > Len(records) THEN 0
    ELSE records[i].value[counter] + sum_records(records, counter, i + 1)

\* C20: during ExportManager.export_subscription no counter ever decreases; folding
\* a resource group's outcome in raises exactly one of successful_rgs / failed_rgs
\* by one and each resource counter by the outcome's figure; and at return each
\* resource counter is the sum of that counter over the processed resource groups.
C20_CountersFold ==
    /\ [][ impl = "ExportManager" =>
              /\ \A c \in ResourceCounters \cup {"successful_rgs", "failed_rgs"} :
                    sub_results'[c] >= sub_results[c]
              /\ (es_pc = "export" /\ ex_pc = "returned") =>
                    /\ \/ /\ sub_results'.successful_rgs = sub_results.successful_rgs + 1
                          /\ sub_results'.failed_rgs = sub_results.failed_rgs
                       \/ /\ sub_results'.successful_rgs = sub_results.successful_rgs
                          /\ sub_results'.failed_rgs = sub_results.failed_rgs + 1
                    /\ \A c \in ResourceCounters :
                          sub_results'[c] = sub_results[c] + result[c] ]_vars
    /\ [](impl = "ExportManager" /\ es_pc = "returned" =>
              \A c \in ResourceCounters :
                  sub_results[c] = sum_records(sub_results.resource_groups, c, 1))

\* two resource groups were folded in, a success and a failure, and resources
\* were counted
C20_Witness ==
    /\ impl = "ExportManager"
    /\ es_pc = "returned"
    /\ Len(attempted) = 2
    /\ sub_results.successful_rgs = 1
    /\ sub_results.failed_rgs = 1
    /\ sub_results.exported_resources > 0

\* ------------------------------------------------------------------------
\* Claims about the end of a run (Spec)
\* ------------------------------------------------------------------------
\* the process has ended
run_ended == main_pc \in {"done", "exited", "fatal"}

\* every entry of the result set is a failure: an error entry, or no resource
\* group exported
every_entry_failed ==
    \A i \in 1..Len(results) : get(results[i].value, "successful_rgs", 0) = 0

\* C21: the process ends with code 1 when loading the configuration failed, when
\* an exception left main, and when the loop ended with an empty result set; it
\* ends with code 0 whenever the loop ended with a non-empty result set, also
\* when every entry of it is a failure. No exit code is set before the end.
C21_ExitCodes ==
    /\ run_ended <=> exit_status # Unset
    /\ main_pc \in {"fatal", "exited"} => exit_status = Some(1)
    /\ (main_pc = "done" /\ results = <<>>) => exit_status = Some(1)
    /\ (main_pc = "done" /\ results # <<>>) => exit_status = Some(0)

\* C21 witness: a run ended with code 0 on a result set of failures only
C21_Witness ==
    /\ main_pc = "done"
    /\ Len(results) = 2
    /\ every_entry_failed
    /\ \E i \in 1..Len(results) : get(results[i].value, "error", None) # None
    /\ exit_status = Some(0)

\* the subscriptions main has processed so far: those before the loop's position
\* that were neither disabled nor skipped by the exclusion test
processed_ids ==
    {Subscriptions[j].id : j \in
        {k \in 1..Len(Subscriptions) :
            /\ k < sub_idx
            /\ export_enabled[k]
            /\ ~is_in_exclude_list(Subscriptions[k].id, exclude_subscriptions)}}

\* the keys of the document export_results.json holds
file_keys == {results_file[1][i].key : i \in 1..Len(results_file[1])}

\* C22: export_results.json is written once per run: only by the step after the
\* last subscription, only on a non-empty result set, never a second time, and
\* what it then holds is the result set with an entry for every processed
\* subscription; a run that ends its loop with results has written it.
C22_ResultsFileOnce ==
    /\ [][ results_file' # results_file =>
              /\ results_file = Unset
              /\ main_pc = "loop"
              /\ sub_idx > Len(Subscriptions)
              /\ results # <<>>
              /\ results_file' = Some(results)
              /\ main_pc' = "done" ]_vars
    /\ [](results_file # Unset => file_keys = processed_ids)
    /\ [](main_pc = "done" => (results_file = Unset <=> results = <<>>))
    /\ [](main_pc # "done" => results_file = Unset)

\* C22 witness: the file was written with the entries of two subscriptions, one of
\* them an error entry
C22_Witness ==
    /\ results_file # Unset
    /\ file_keys = {"s1", "s2"}
    /\ \E i \in 1..2 : get(results_file[1][i].value, "error", None) # None

\* ------------------------------------------------------------------------
\* Claims about the export directories (SpecExport)
\* ------------------------------------------------------------------------
\* sub_dir = Path(base_dir) / _sanitize_name(subscription_name)
sub_dir(subscription) == sanitize_name(subscription.name)

\* C23: any two distinct subscriptions of a run get different directories under
\* base_dir, and with create_rg_folders enabled any two distinct resource groups
\* of a subscription are recorded with different directories.
C23_DistinctDirectories ==
    /\ \A i, j \in {k \in 1..Len(Subscriptions) : "name" \in DOMAIN Subscriptions[k]} :
          Subscriptions[i].id # Subscriptions[j].id
              => sub_dir(Subscriptions[i]) # sub_dir(Subscriptions[j])
    /\ (impl = "ExportManager" /\ create_rg_folders) =>
          \A i, j \in 1..Len(sub_results.resource_groups) :
              sub_results.resource_groups[i].key # sub_results.resource_groups[j].key
                  => sub_results.resource_groups[i].value.path
                         # sub_results.resource_groups[j].value.path

\* ------------------------------------------------------------------------
\* Claims about subscriptions without a name (Spec)
\* ------------------------------------------------------------------------
\* the entries `az account list` may print: id, name and state
AccountEntries ==
    [ id : {<<"s", "3">>, <<>>},
      name : {<<"S", "1">>, <<" ">>, <<>>},
      state : {"Enabled", "enabled", "Disabled"} ]

\* get_subscriptions_from_azure on one entry: an enabled subscription with an id
\* is reported, under its id where its name is empty
discovered(entry) ==
    IF strip(entry.id) # <<>> /\ entry.state \in {"Enabled", "enabled"}
       THEN Some([ id   |-> strip(entry.id),
                   name |-> IF strip(entry.name) # <<>> THEN strip(entry.name)
                            ELSE strip(entry.id) ])
       ELSE Unset

\* the configured subscription with the given id
configured(id) == CHOOSE sub \in Elements(Subscriptions) : sub.id = id

\* C24: a subscription without a name is processed under its id. Discovery
\* reports an enabled subscription whose name is empty with name = id, and main's
\* entry in results for a configured subscription without a name is an export
\* result, not an error entry, carrying the id as subscription_name.
C24_NamelessUnderId ==
    /\ \A entry \in AccountEntries :
          (discovered(entry) # Unset /\ strip(entry.name) = <<>>)
              => discovered(entry)[1].name = discovered(entry)[1].id
    /\ \A i \in 1..Len(results) :
          "name" \notin DOMAIN configured(results[i].key)
              => /\ get(results[i].value, "error", None) = None
                 /\ results[i].value.subscription_name = IdChars[results[i].key]

\* ------------------------------------------------------------------------
\* Claims about pipeline variables (SpecResolve)
\* ------------------------------------------------------------------------
\* the string has the form $(NAME)
is_placeholder(value) ==
    /\ value.type = "str"
    /\ startswith(value.text, <<"$", "(">>)
    /\ endswith(value.text, <<")">>)

\* NAME of $(NAME)
placeholder_name(value) == SubSeq(value.text, 3, Len(value.text) - 1)

\* C25: for a string $(NAME) the call returns the environment's value of NAME
\* when NAME is set in the environment and the argument itself when NAME is not
\* set; every other string and every non-string is returned unchanged.
C25_ResolvePipelineVariable ==
    pv_pc = "returned" =>
        IF is_placeholder(pv_value)
           THEN IF getenv(environ, placeholder_name(pv_value)) # Unset
                   THEN resolved = py("str", getenv(environ, placeholder_name(pv_value))[1])
                   ELSE resolved = pv_value
           ELSE resolved = pv_value

\* ------------------------------------------------------------------------
\* Claims about the summary (Spec)
\* ------------------------------------------------------------------------
\* the entries of results that carry the given counter
entries_with(key) == {i \in 1..Len(results) : key \in DOMAIN results[i].value}

\* C26: in the summary of a finished run, the subscriptions with successful
\* exports are the entries with successful_rgs > 0, whatever their failed_rgs, and
\* the total and successful resource-group figures are the sums of total_rgs and
\* successful_rgs over the entries, an entry without counters adding nothing.
C26_Summary ==
    /\ main_pc = "done" => (summary = Unset <=> results = <<>>)
    /\ main_pc # "done" => summary = Unset
    /\ summary # Unset =>
          /\ summary[1].total_subs = Len(results)
          /\ summary[1].successful_subs =
                 Cardinality({i \in entries_with("successful_rgs") :
                                 results[i].value.successful_rgs > 0})
          /\ summary[1].total_rgs =
                 SumOver([i \in entries_with("total_rgs") |-> results[i].value.total_rgs],
                         entries_with("total_rgs"))
          /\ summary[1].successful_rgs =
                 SumOver([i \in entries_with("successful_rgs")
                             |-> results[i].value.successful_rgs],
                         entries_with("successful_rgs"))

\* C26 witness: a summary over an entry with both exported and failed resource
\* groups and an error entry without counters
C26_Witness ==
    /\ summary # Unset
    /\ summary[1].successful_subs = 1
    /\ \E i \in entries_with("failed_rgs") :
          results[i].value.successful_rgs > 0 /\ results[i].value.failed_rgs > 0
    /\ \E i \in 1..Len(results) : "total_rgs" \notin DOMAIN results[i].value

\* ------------------------------------------------------------------------
\* Claims about the outcome of one resource group (SpecExport)
\* ------------------------------------------------------------------------
\* C27: a resource group's outcome is a success only if its own run of the tool
\* wrote at least one .tf file: files that another resource group's export left
\* in the inspected directory do not turn an exit-0 run that wrote nothing into
\* a success.
C27_SuccessNeedsOwnFiles ==
    (impl = "ExportManager" /\ ex_pc = "returned" /\ result.success) => proc.wrote

\* C29: every outcome _export_resource_group returns has an error_type among
\* none, permission, timeout, tool_not_found and other, and a successful outcome
\* has error_type none.
C29_ErrorTypeEnum ==
    (impl = "ExportManager" /\ ex_pc = "returned") =>
        /\ result.error_type \in {None, "permission", "timeout", "tool_not_found", "other"}
        /\ result.success => result.error_type = None

\* no element occurs twice in the list
no_duplicates(seq) == \A i, j \in 1..Len(seq) : seq[i] = seq[j] => i = j

C28_SuccessNeedsExportedGroup ==
    (main_pc \in {"push", "telemetry"} /\ status = "success") =>
        get(subscription_result, "successful_rgs", 0) > 0

====
